---- MODULE Spec2Model ----
(***************************************************************************)
(* Model of worktime.py: a ledger file of START/END work records, the      *)
(* commands start, stop, status and summary, and the RFC 3339 timestamp    *)
(* text the records are stored with.                                       *)
(*                                                                         *)
(* An instant is [t, off]: t counts clock ticks since the epoch (UTC),     *)
(* off is the UTC offset in seconds.  The stored text of a timestamp is    *)
(* [sec, off]: the local wall-clock second and the offset, which is all    *)
(* that the format "YYYY-MM-DDTHH:mm:ssZZ" writes.  The commands of one run *)
(* read the clock in one local zone, tz; a ledger file found on disk may   *)
(* hold timestamps of any zone.                                            *)
(***************************************************************************)
EXTENDS Integers, Sequences, FiniteSets, TLC

\* ---- bounds of the model ----
MaxEvents == 3        \* longest ledger the commands build
MaxTick == 5          \* latest clock reading, in ticks
TicksPerSecond == 2   \* sub-second resolution of the clock
MaxOffset == 1        \* largest UTC offset of a local zone, in seconds
MaxRaw == 2           \* longest ledger file found on disk at startup

VARIABLES
    tz,         \* UTC offset of the local zone the commands run in
    file,       \* content of the ledger file: a sequence of mappings
    prev,       \* content of the ledger file when the last command began
    cmd,        \* the last command invoked
    outcome,    \* how the last command ended: "ok" or the exception raised
    now,        \* the last instant make_record read from the clock
    sessions,   \* the sessions the last summary printed
    total,      \* the total the last summary printed, in ticks
    again,      \* the last two commands were both summary
    procs,      \* the start/stop invocations that run side by side
    writer      \* the invocation that wrote the file last, 0 if none did

vars == <<tz, file, prev, cmd, outcome, now, sessions, total, again, procs, writer>>

\* ---- data structures ----
RecordType == {"START", "END"}

WorkRecord(type, timestamp) == [type |-> type, timestamp |-> timestamp]

\* every value arrow.now() can return in the local zone of offset zone
ArrowNow(zone) == [t : 0..MaxTick, off : {zone}]

\* ---- timestamp text ----
\* timestamp.format(fmt=arrow.FORMAT_RFC3339): seconds and offset, no fraction
FormatRFC3339(x) == [sec |-> (x.t \div TicksPerSecond) + x.off, off |-> x.off]

\* arrow.get that converts the parsed time to UTC
ArrowGetUTC(s) == [t |-> (s.sec - s.off) * TicksPerSecond, off |-> 0]

\* arrow.get that applies the offset with the wrong sign
ArrowGetWrongSign(s) == [t |-> (s.sec + s.off) * TicksPerSecond, off |-> s.off]

\* arrow.get(text, arrow.FORMAT_RFC3339)
ArrowGet(s) == [t |-> (s.sec - s.off) * TicksPerSecond, off |-> s.off]

\* Arrow.__eq__ / __lt__ compare the instants, not the offsets
SameInstant(x, y) == x.t = y.t

\* ---- record store ----
workrecord_representer(rec) ==
    [type |-> rec.type, timestamp |-> FormatRFC3339(rec.timestamp)]

\* the exception read_records raises on file content f, or "ok"
ReadOutcome(f) ==
    IF \E i \in 1..Len(f) : f[i].type \notin RecordType THEN "KeyError" ELSE "ok"

read_records(f) ==
    [i \in 1..Len(f) |-> WorkRecord(f[i].type, ArrowGet(f[i].timestamp))]

write_records(records) ==
    [i \in 1..Len(records) |-> workrecord_representer(records[i])]

make_record(type, clock) == WorkRecord(type, clock)

\* insert_record without the comparison with the last record
InsertRecordNoCheck(f, rec) ==
    IF ReadOutcome(f) # "ok"
    THEN [outcome |-> ReadOutcome(f), file |-> f]
    ELSE [outcome |-> "ok", file |-> write_records(Append(read_records(f), rec))]

\* insert_record comparing the last record with END only
InsertRecordEndOnly(f, rec) ==
    IF ReadOutcome(f) # "ok"
    THEN [outcome |-> ReadOutcome(f), file |-> f]
    ELSE LET records == read_records(f) IN
         IF records # <<>> /\ records[Len(records)].type = rec.type /\ rec.type = "END"
         THEN [outcome |-> "ValueError", file |-> f]
         ELSE [outcome |-> "ok", file |-> write_records(Append(records, rec))]

\* insert_record comparing the last record with START only
InsertRecordStartOnly(f, rec) ==
    IF ReadOutcome(f) # "ok"
    THEN [outcome |-> ReadOutcome(f), file |-> f]
    ELSE LET records == read_records(f) IN
         IF records # <<>> /\ records[Len(records)].type = rec.type /\ rec.type = "START"
         THEN [outcome |-> "ValueError", file |-> f]
         ELSE [outcome |-> "ok", file |-> write_records(Append(records, rec))]

\* insert_record that also refuses any record after an END
InsertRecordNoRestart(f, rec) ==
    IF ReadOutcome(f) # "ok"
    THEN [outcome |-> ReadOutcome(f), file |-> f]
    ELSE LET records == read_records(f) IN
         IF records # <<>> /\ (records[Len(records)].type = rec.type
                                \/ records[Len(records)].type = "END")
         THEN [outcome |-> "ValueError", file |-> f]
         ELSE [outcome |-> "ok", file |-> write_records(Append(records, rec))]

\* insert_record that accepts a record only into an empty list
InsertRecordOnce(f, rec) ==
    IF ReadOutcome(f) # "ok"
    THEN [outcome |-> ReadOutcome(f), file |-> f]
    ELSE LET records == read_records(f) IN
         IF records # <<>>
         THEN [outcome |-> "ValueError", file |-> f]
         ELSE [outcome |-> "ok", file |-> write_records(Append(records, rec))]

\* insert_record that writes the list before it compares the types
InsertRecordWriteFirst(f, rec) ==
    IF ReadOutcome(f) # "ok"
    THEN [outcome |-> ReadOutcome(f), file |-> f]
    ELSE LET records == read_records(f) IN
         [outcome |-> IF records # <<>> /\ records[Len(records)].type = rec.type
                      THEN "ValueError" ELSE "ok",
          file |-> write_records(Append(records, rec))]

\* insert_record on file content f: the exception raised and the file left
InsertRecord(f, rec) ==
    IF ReadOutcome(f) # "ok"
    THEN [outcome |-> ReadOutcome(f), file |-> f]
    ELSE LET records == read_records(f) IN
         IF records # <<>> /\ records[Len(records)].type = rec.type
         THEN [outcome |-> "ValueError", file |-> f]
         ELSE [outcome |-> "ok", file |-> write_records(Append(records, rec))]

\* ---- summary ----
RECURSIVE InsertSorted(_, _)
\* r goes after every record that is not later than it (the sort is stable)
InsertSorted(s, r) ==
    IF s = <<>> THEN <<r>>
    ELSE IF s[Len(s)].timestamp.t <= r.timestamp.t THEN Append(s, r)
    ELSE Append(InsertSorted(SubSeq(s, 1, Len(s) - 1), r), s[Len(s)])

RECURSIVE Sorted(_)
\* sorted(recs, key=lambda x: x.timestamp)
Sorted(recs) ==
    IF recs = <<>> THEN <<>>
    ELSE InsertSorted(Sorted(SubSeq(recs, 1, Len(recs) - 1)), recs[Len(recs)])

\* the sorted records without the simulated END
SummaryRecsNoSimulatedEnd(recs, clock) == Sorted(recs)

\* the END simulated before the records are sorted
SummaryRecsSortAfter(recs, clock) ==
    IF recs[Len(recs)].type = "START"
    THEN Sorted(Append(recs, make_record("END", clock)))
    ELSE Sorted(recs)

\* the records summary pairs: sorted, plus a simulated END when in session
SummaryRecs(recs, clock) ==
    LET s == Sorted(recs) IN
    IF s[Len(s)].type = "START" THEN Append(s, make_record("END", clock)) ELSE s

\* zip(recs[0::2], recs[1::2]) with the duration of each pair
Pairs(recs) ==
    [i \in 1..(Len(recs) \div 2) |->
        [start |-> recs[2 * i - 1].timestamp,
         end |-> recs[2 * i].timestamp,
         dur |-> recs[2 * i].timestamp.t - recs[2 * i - 1].timestamp.t]]

RECURSIVE SumDur(_)
SumDur(s) == IF s = <<>> THEN 0 ELSE SumDur(SubSeq(s, 1, Len(s) - 1)) + s[Len(s)].dur

\* the exception summary raises, or "ok": recs[-1] of an empty list, and
\* reduce without an initial value over an empty list of durations
SummaryOutcome(f, clock) ==
    IF ReadOutcome(f) # "ok" THEN ReadOutcome(f)
    ELSE IF read_records(f) = <<>> THEN "IndexError"
    ELSE IF Pairs(SummaryRecs(read_records(f), clock)) = <<>> THEN "TypeError"
    ELSE "ok"

\* ---- commands ----
\* the two invocations that may share the file
Procs == {1, 2}

\* an invocation that has not read the clock or the file yet
Idle(zone) ==
    [pc |-> "idle", rec |-> make_record("START", [t |-> 0, off |-> zone]),
     records |-> <<>>, outcome |-> "ok"]

Init ==
    /\ tz \in 0..MaxOffset
    /\ file = <<>>
    /\ prev = <<>>
    /\ cmd = "none"
    /\ outcome = "ok"
    /\ now = [t |-> 0, off |-> tz]
    /\ sessions = <<>>
    /\ total = 0
    /\ again = FALSE
    /\ procs = [p \in Procs |-> Idle(tz)]
    /\ writer = 0

Start ==
    \E clock \in ArrowNow(tz) :
        LET r == InsertRecord(file, make_record("START", clock)) IN
        /\ Len(file) < MaxEvents
        /\ cmd' = "start"
        /\ prev' = file
        /\ now' = clock
        /\ outcome' = r.outcome
        /\ file' = r.file
        /\ again' = FALSE
        /\ UNCHANGED <<tz, sessions, total, procs, writer>>

Stop ==
    \E clock \in ArrowNow(tz) :
        LET r == InsertRecord(file, make_record("END", clock)) IN
        /\ Len(file) < MaxEvents
        /\ cmd' = "stop"
        /\ prev' = file
        /\ now' = clock
        /\ outcome' = r.outcome
        /\ file' = r.file
        /\ again' = FALSE
        /\ UNCHANGED <<tz, sessions, total, procs, writer>>

Status ==
    /\ cmd' = "status"
    /\ prev' = file
    /\ outcome' = ReadOutcome(file)
    /\ again' = FALSE
    /\ UNCHANGED <<tz, file, now, sessions, total, procs, writer>>

\* summary that writes the records it paired back to the file
SummaryPersists ==
    \E clock \in ArrowNow(tz) :
        /\ cmd' = "summary"
        /\ prev' = file
        /\ outcome' = SummaryOutcome(file, clock)
        /\ again' = (cmd = "summary")
        /\ IF ReadOutcome(file) # "ok" \/ file = <<>>
           THEN /\ sessions' = <<>>
                /\ total' = 0
                /\ now' = now
                /\ file' = file
           ELSE LET recs == SummaryRecs(read_records(file), clock) IN
                /\ sessions' = Pairs(recs)
                /\ total' = IF Pairs(recs) = <<>> THEN 0 ELSE SumDur(Pairs(recs))
                /\ now' = IF Len(recs) > Len(file) THEN clock ELSE now
                /\ file' = write_records(recs)
        /\ UNCHANGED <<tz, procs, writer>>

Summary ==
    \E clock \in ArrowNow(tz) :
        /\ cmd' = "summary"
        /\ prev' = file
        /\ outcome' = SummaryOutcome(file, clock)
        /\ again' = (cmd = "summary")
        /\ IF ReadOutcome(file) # "ok" \/ file = <<>>
           THEN /\ sessions' = <<>>
                /\ total' = 0
                /\ now' = now
           ELSE LET recs == SummaryRecs(read_records(file), clock) IN
                /\ sessions' = Pairs(recs)
                /\ total' = IF Pairs(recs) = <<>> THEN 0 ELSE SumDur(Pairs(recs))
                /\ now' = IF Len(recs) > Len(file) THEN clock ELSE now
        /\ UNCHANGED <<tz, file, procs, writer>>

Next == Start \/ Stop \/ Status \/ Summary

Spec == Init /\ [][Next]_vars

\* ---- a ledger file found on disk, possibly edited by hand ----
Texts == UNION {{FormatRFC3339(x) : x \in ArrowNow(zone)} : zone \in 0..MaxOffset}

RawMapping == [type : RecordType \cup {"PAUSE"}, timestamp : Texts]

RawFiles == UNION {[1..n -> RawMapping] : n \in 0..MaxRaw}

InitLoad ==
    /\ tz \in 0..MaxOffset
    /\ file \in RawFiles
    /\ prev = file
    /\ cmd = "none"
    /\ outcome = "ok"
    /\ now = [t |-> 0, off |-> tz]
    /\ sessions = <<>>
    /\ total = 0
    /\ again = FALSE
    /\ procs = [p \in Procs |-> Idle(tz)]
    /\ writer = 0

SpecLoad == InitLoad /\ [][Next]_vars

\* ---- two invocations of start or stop on the same file ----
\* open(path, "w") opening for append
OpenAppend(content, written) == content \o written

\* open(path, "w") followed by the write: the old content is dropped
OpenW(content, written) == written

\* make_record, read_records and the comparison of insert_record
CmdLoad(p) ==
    /\ procs[p].pc = "idle"
    /\ \E type \in RecordType, clock \in ArrowNow(tz) :
        LET rec == make_record(type, clock)
            records == read_records(file)
        IN  procs' = [procs EXCEPT ![p] =
                IF ReadOutcome(file) # "ok"
                THEN [pc |-> "done", rec |-> rec, records |-> <<>>,
                      outcome |-> ReadOutcome(file)]
                ELSE IF records # <<>> /\ records[Len(records)].type = rec.type
                THEN [pc |-> "done", rec |-> rec, records |-> records,
                      outcome |-> "ValueError"]
                ELSE [pc |-> "loaded", rec |-> rec,
                      records |-> Append(records, rec), outcome |-> "ok"]]
    /\ UNCHANGED <<tz, file, prev, cmd, outcome, now, sessions, total, again, writer>>

\* write_records of insert_record
CmdWrite(p) ==
    /\ procs[p].pc = "loaded"
    /\ file' = OpenW(file, write_records(procs[p].records))
    /\ procs' = [procs EXCEPT ![p].pc = "done"]
    /\ writer' = p
    /\ UNCHANGED <<tz, prev, cmd, outcome, now, sessions, total, again>>

NextConc == \E p \in Procs : CmdLoad(p) \/ CmdWrite(p)

SpecConc == Init /\ [][NextConc]_vars

\* ---- ledger states, as seen through the last event ----
IsEmpty(f) == f = <<>>
IsOpen(f) == f # <<>> /\ f[Len(f)].type = "START"
IsClosed(f) == f # <<>> /\ f[Len(f)].type = "END"

SequenceError == "ValueError"
ParseError == "ParseError"

\* C1: the events read from the file in file order never contain two
\* consecutive events of the same kind.
NoTwoConsecutiveSameKind ==
    LET records == read_records(file) IN
    \A i \in 1..(Len(records) - 1) : records[i].type # records[i + 1].type

\* a command was rejected on a ledger that already holds two events
RejectedOnLongLedger ==
    /\ Len(file) >= 2
    /\ cmd \in {"start", "stop"}
    /\ outcome = SequenceError

\* C2: the event at every even 0-based position is a START and the event at
\* every odd 0-based position is an END.
StartEndShape ==
    \A i \in 1..Len(file) :
        file[i].type = IF i % 2 = 1 THEN "START" ELSE "END"

\* C3: start on an Open ledger fails with the sequence error and appends
\* nothing.
StartOnOpenRejected ==
    (cmd = "start" /\ IsOpen(prev)) => (outcome = SequenceError /\ file = prev)

StartInvokedOnOpen == cmd = "start" /\ IsOpen(prev) /\ outcome = SequenceError

\* C4: stop on an Empty ledger fails with the sequence error and the ledger
\* stays empty.
StopOnEmptyRejected ==
    (cmd = "stop" /\ IsEmpty(prev)) => (outcome = SequenceError /\ file = <<>>)

\* C5: stop on a Closed ledger fails with the sequence error and appends
\* nothing.
StopOnClosedRejected ==
    (cmd = "stop" /\ IsClosed(prev)) => (outcome = SequenceError /\ file = prev)

StopInvokedOnClosed == cmd = "stop" /\ IsClosed(prev) /\ outcome = SequenceError

\* C6: start succeeds from Empty and from Closed and leaves the ledger Open;
\* stop succeeds from Open and leaves the ledger Closed; start then stop on an
\* empty ledger leaves exactly 2 events, the last one an END.
Transitions ==
    /\ (cmd = "start" /\ (IsEmpty(prev) \/ IsClosed(prev)))
            => (outcome = "ok" /\ IsOpen(file) /\ Len(file) = Len(prev) + 1)
    /\ (cmd = "stop" /\ IsOpen(prev))
            => (outcome = "ok" /\ IsClosed(file) /\ Len(file) = Len(prev) + 1)
    /\ (cmd = "stop" /\ Len(prev) = 1 /\ IsOpen(prev))
            => (Len(file) = 2 /\ file[2].type = "END")

\* a session was closed and the next one started
RestartedAfterClose ==
    /\ cmd = "start"
    /\ outcome = "ok"
    /\ Len(prev) = 2
    /\ prev[1].type = "START"
    /\ prev[2].type = "END"
    /\ IsOpen(file)

\* C7: status and summary leave the ledger file as they found it, also when
\* summary simulates the END of the open session.
ReportsLeaveFile ==
    (cmd \in {"status", "summary"}) => file = prev

\* summary printed an open session, whose END it stamped with the clock
SummaryOfOpenLedger ==
    /\ cmd = "summary"
    /\ outcome = "ok"
    /\ IsOpen(prev)
    /\ sessions # <<>>
    /\ sessions[Len(sessions)].end = now

\* C8: summary on a ledger with no events ends without error, with no
\* session and a total of zero.
SummaryOfEmptyLedger ==
    (cmd = "summary" /\ IsEmpty(prev))
        => (outcome = "ok" /\ sessions = <<>> /\ total = 0)

\* C9: every command that loads a file holding an element whose type is
\* neither START nor END ends with ParseError.
UnknownTypeIsParseError ==
    (cmd # "none" /\ \E i \in 1..Len(prev) : prev[i].type \notin RecordType)
        => outcome = ParseError

\* C10: the timestamp stored for an event, read back, is the instant at
\* which the event was recorded.
StoredTimestampIsInstant ==
    (cmd \in {"start", "stop"} /\ outcome = "ok")
        => SameInstant(ArrowGet(file[Len(file)].timestamp), now)

\* C11: after every successful start or stop the stored sequence is the
\* previously stored sequence followed by one new event of the requested kind.
StrictAppend ==
    (cmd \in {"start", "stop"} /\ outcome = "ok")
        => /\ Len(file) = Len(prev) + 1
           /\ SubSeq(file, 1, Len(prev)) = prev
           /\ file[Len(file)].type = IF cmd = "start" THEN "START" ELSE "END"

\* an event was appended to a ledger that held two events of an offset zone
AppendedToStoredEvents ==
    /\ cmd \in {"start", "stop"}
    /\ outcome = "ok"
    /\ Len(prev) = 2
    /\ prev[1].timestamp.off > 0
    /\ prev[1].timestamp.sec # prev[2].timestamp.sec

\* C12: in every state reachable by start and stop, start or stop succeeds.
NoTerminalState ==
    \E clock \in ArrowNow(tz) :
        \/ InsertRecord(file, make_record("START", clock)).outcome = "ok"
        \/ InsertRecord(file, make_record("END", clock)).outcome = "ok"

\* the ledger went through Open, Closed and Open again
LongLedger ==
    /\ Len(file) >= 3
    /\ cmd \in {"start", "stop"}
    /\ outcome = "ok"

\* C13: loading the file and saving what was loaded, done twice, writes on
\* the second save the content of the first.
Resave(f) == write_records(read_records(f))

IdempotentSerialization == Resave(Resave(file)) = Resave(file)

\* a ledger written by the commands in a zone with a non-zero offset
WrittenInOffsetZone ==
    /\ Len(file) >= 2
    /\ \A i \in 1..Len(file) : file[i].timestamp.off > 0
    /\ file[1].timestamp.sec # file[2].timestamp.sec

\* a ledger that alternates from a START with timestamps that never go back
Chronological(f) ==
    /\ \A i \in 1..Len(f) : f[i].type = IF i % 2 = 1 THEN "START" ELSE "END"
    /\ \A i \in 1..(Len(f) - 1) :
            ArrowGet(f[i].timestamp).t <= ArrowGet(f[i + 1].timestamp).t

\* C14: on a chronological ledger of n events summary reports ceil(n/2)
\* sessions, session i being the events 2i and 2i+1 of the file (0-based),
\* the last one ending at the current time when n is odd.
SessionsInFileOrder ==
    (cmd = "summary" /\ Chronological(prev)) =>
        LET n == Len(prev) IN
        /\ n > 0 => outcome = "ok"
        /\ Len(sessions) = (n + 1) \div 2
        /\ \A i \in 1..Len(sessions) :
            /\ sessions[i].start = ArrowGet(prev[2 * i - 1].timestamp)
            /\ sessions[i].end = IF 2 * i <= n THEN ArrowGet(prev[2 * i].timestamp)
                                               ELSE now

\* summary of START@T0, END@T1, START@T2 with T0 < T1 < T2
ClosedAndOpenSession ==
    /\ cmd = "summary"
    /\ Chronological(prev)
    /\ Len(prev) = 3
    /\ prev[1].timestamp.sec < prev[2].timestamp.sec
    /\ prev[2].timestamp.sec < prev[3].timestamp.sec
    /\ Len(sessions) = 2
    /\ sessions[2].end = now

\* C15: every session summary derives ends no earlier than it starts.
NonNegativeDurations ==
    cmd = "summary" =>
        \A i \in 1..Len(sessions) :
            /\ sessions[i].dur >= 0
            /\ sessions[i].end.t >= sessions[i].start.t

RECURSIVE SumFrom(_, _)
\* the durations of the sessions s[i], s[i+1], ... added up
SumFrom(s, i) ==
    IF i > Len(s) THEN 0 ELSE (s[i].end.t - s[i].start.t) + SumFrom(s, i + 1)

\* C16: the total summary reports is the sum of the durations of the sessions
\* it lists; for a ledger holding only START@T0, END@T1 it is T1 - T0.
TotalIsSumOfSessions ==
    (cmd = "summary" /\ outcome = "ok") =>
        /\ total = SumFrom(sessions, 1)
        /\ (Len(prev) = 2 /\ prev[1].type = "START" /\ prev[2].type = "END")
              => total = ArrowGet(prev[2].timestamp).t - ArrowGet(prev[1].timestamp).t

\* C18: when the pairing by sorted timestamp holds a pair that is not a START
\* followed by an END, summary fails with ParseError.
MalformedPairingIsParseError ==
    (cmd = "summary" /\ ReadOutcome(prev) = "ok" /\ prev # <<>>) =>
        LET recs == SummaryRecs(read_records(prev), now) IN
        (\E i \in 1..(Len(recs) \div 2) :
            ~(recs[2 * i - 1].type = "START" /\ recs[2 * i].type = "END"))
        => outcome = ParseError

\* summary simulates an END on file content f
SimulatesEnd(f) ==
    /\ ReadOutcome(f) = "ok"
    /\ f # <<>>
    /\ LET s == Sorted(read_records(f)) IN s[Len(s)].type = "START"

RejectedLeavesFile ==
    (cmd \in {"start", "stop"} /\ outcome = SequenceError) => file = prev

\* a command was rejected at a clock reading later than the last event
RejectedLater ==
    /\ cmd \in {"start", "stop"}
    /\ outcome = SequenceError
    /\ prev # <<>>
    /\ now.t > ArrowGet(prev[Len(prev)].timestamp).t + TicksPerSecond

\* both invocations ended without error
BothSucceeded ==
    \A p \in Procs : procs[p].pc = "done" /\ procs[p].outcome = "ok"

\* what invocation p read from the file
ReadBy(p) == SubSeq(procs[p].records, 1, Len(procs[p].records) - 1)

\* C19: when two invocations read the same file content before either wrote
\* and both succeed, the file holds what the last writer wrote: the content
\* read plus the last writer's event only.
LastWriterWins ==
    (BothSucceeded /\ ReadBy(1) = ReadBy(2)) =>
        /\ writer \in Procs
        /\ Len(file) = Len(ReadBy(writer)) + 1
        /\ SubSeq(file, 1, Len(file) - 1) = write_records(ReadBy(writer))
        /\ file[Len(file)] = workrecord_representer(procs[writer].rec)

\* two starts both succeeded at different seconds and the file holds the
\* event of the last writer only
LostAppend ==
    /\ BothSucceeded
    /\ \A p \in Procs : procs[p].rec.type = "START"
    /\ FormatRFC3339(procs[1].rec.timestamp) # FormatRFC3339(procs[2].rec.timestamp)
    /\ file = <<workrecord_representer(procs[writer].rec)>>

====
